---- MODULE Spec2Model ----
(***************************************************************************)
(* Model of the reference-checker provider layer:                          *)
(*   - ProviderRegistry (src/lib/provider-registry.ts): eight static      *)
(*     name -> provider maps plus one default provider name per service.   *)
(*   - MockDatabaseProvider (src/providers/mock/mock-database-provider.ts) *)
(*     five in-memory maps with create/read/update/delete.                 *)
(*   - provider initialisation and the request handlers that use it.       *)
(* A JavaScript Map is modelled as a sequence of [key, value] entries in   *)
(* insertion order, an object as a function from field names to values.    *)
(***************************************************************************)
EXTENDS Integers, Sequences, FiniteSets, TLC

\* ------------------------------------------------------------------ bounds
\* at most this many register calls in one behaviour
MaxRegs == 2

\* at most this many create, update and delete calls on the mock store in one
\* behaviour
MaxCalls == 3

\* the clock advances at most this many times in one behaviour
MaxTicks == 1

\* at most this many page renders and route requests in one behaviour
MaxRequests == 3

\* ------------------------------------------------------------- JS values
\* `undefined`: an omitted optional argument, an unset environment variable,
\* the result of Map.get on a missing key
Undefined == "<undefined>"

\* a || b on strings: undefined and the empty string are falsy
OrElse(a, b) == IF a = Undefined \/ a = "" THEN b ELSE a

\* ---------------------------------------------------------------- JS Map
EmptyMap == << >>

MapKeys(m) == [i \in 1..Len(m) |-> m[i].key]

MapHas(m, k) == \E i \in 1..Len(m) : m[i].key = k

MapIndex(m, k) == CHOOSE i \in 1..Len(m) : m[i].key = k

\* Map.get: undefined when the key is missing
MapGet(m, k) == IF MapHas(m, k) THEN m[MapIndex(m, k)].value ELSE Undefined

\* appends an entry without looking for the key (an array push)
MapSetAppend(m, k, v) == Append(m, [key |-> k, value |-> v])

\* Map.set: an existing key keeps its position and gets the new value,
\* a new key is appended
MapSet(m, k, v) ==
  IF MapHas(m, k)
    THEN [m EXCEPT ![MapIndex(m, k)] = [key |-> k, value |-> v]]
    ELSE Append(m, [key |-> k, value |-> v])

\* ------------------------------------------------------ ProviderRegistry
Categories == {"auth", "database", "email", "nlp", "storage", "blockchain", "vc", "zk"}

\* the service label each getter puts in its error message
Label(c) ==
  CASE c = "auth" -> "Auth"
    [] c = "database" -> "Database"
    [] c = "email" -> "Email"
    [] c = "nlp" -> "NLP"
    [] c = "storage" -> "Storage"
    [] c = "blockchain" -> "Blockchain"
    [] c = "vc" -> "VC"
    [] c = "zk" -> "ZK"

\* the environment variable initialize() reads for each service
EnvVar(c) ==
  CASE c = "auth" -> "AUTH_PROVIDER"
    [] c = "database" -> "DATABASE_PROVIDER"
    [] c = "email" -> "EMAIL_PROVIDER"
    [] c = "nlp" -> "NLP_PROVIDER"
    [] c = "storage" -> "STORAGE_PROVIDER"
    [] c = "blockchain" -> "BLOCKCHAIN_PROVIDER"
    [] c = "vc" -> "VC_PROVIDER"
    [] c = "zk" -> "ZK_PROVIDER"

EnvVars == {EnvVar(c) : c \in Categories}

\* provider names used as inputs; the empty string is a legal Map key
Names == {"", "mock", "custom"}

\* a name argument: a name, or omitted
NameArgs == Names \cup {Undefined}

\* the k-th provider instance constructed (`new XProvider()`): an object identity
NewProvider(k) == "provider#" \o ToString(k)

\* values an environment variable is given: unset, empty, or a name
EnvValues == <<Undefined, "", "custom">>

EnvOrder == <<"AUTH_PROVIDER", "DATABASE_PROVIDER", "EMAIL_PROVIDER", "NLP_PROVIDER",
              "STORAGE_PROVIDER", "BLOCKCHAIN_PROVIDER", "VC_PROVIDER", "ZK_PROVIDER">>

AllUnset == [v \in EnvVars |-> Undefined]

\* an environment in which neighbouring variables differ: the i-th variable
\* has the ((i + shift) mod 3)-th of the values unset, empty, "custom"
MixedEnv(shift) ==
  [v \in EnvVars |->
     LET i == CHOOSE j \in 1..Len(EnvOrder) : EnvOrder[j] = v
     IN EnvValues[((i + shift) % 3) + 1]]

\* process environments: the default configuration (every variable unset) and
\* three in which each variable is once unset, once empty and once a name
EnvChoices == {AllUnset, MixedEnv(0), MixedEnv(1), MixedEnv(2)}

\* the static field initialisers of the default names
FieldDefaults == [c \in Categories |-> "mock"]

\* the static field initialisers of the eight maps
EmptyRegistry == [c \in Categories |-> EmptyMap]

\* an initialize() that reads AUTH_PROVIDER for the database default as well
initializeWrongVar(e) ==
  [c \in Categories |->
     OrElse(e[EnvVar(IF c = "database" THEN "auth" ELSE c)], "mock")]

\* initialize(): process.env.X || 'mock' for each service
initialize(e) == [c \in Categories |-> OrElse(e[EnvVar(c)], "mock")]

\* a register that writes the binding into the map of every service
registerProviderShared(reg, c, name, provider) ==
  [d \in Categories |-> MapSet(reg[d], name, provider)]

\* a register that pushes a new entry even when the name is already bound
registerProviderAppend(reg, c, name, provider) ==
  [reg EXCEPT ![c] = MapSetAppend(reg[c], name, provider)]

\* registerXProvider(name, provider)
registerProvider(reg, c, name, provider) ==
  [reg EXCEPT ![c] = MapSet(reg[c], name, provider)]

NoError == [kind |-> "none"]

\* a getter that falls back to the default only when no name is given
getProviderNullish(reg, dflt, c, name) ==
  LET providerName == IF name = Undefined THEN dflt[c] ELSE name
      provider == MapGet(reg[c], providerName)
  IN IF provider = Undefined
       THEN [ok |-> FALSE, provider |-> Undefined,
             error |-> [kind |-> "ProviderNotFound", label |-> Label(c),
                        requested |-> providerName,
                        available |-> MapKeys(reg[c])]]
       ELSE [ok |-> TRUE, provider |-> provider, error |-> NoError]

\* a getter that falls back to the literal 'mock' instead of the default field
getProviderLiteralMock(reg, dflt, c, name) ==
  LET providerName == OrElse(name, "mock")
      provider == MapGet(reg[c], providerName)
  IN IF provider = Undefined
       THEN [ok |-> FALSE, provider |-> Undefined,
             error |-> [kind |-> "ProviderNotFound", label |-> Label(c),
                        requested |-> providerName,
                        available |-> MapKeys(reg[c])]]
       ELSE [ok |-> TRUE, provider |-> provider, error |-> NoError]

\* getXProvider(name?): the provider, or the thrown Error
getProvider(reg, dflt, c, name) ==
  LET providerName == OrElse(name, dflt[c])
      provider == MapGet(reg[c], providerName)
  IN IF provider = Undefined
       THEN [ok |-> FALSE, provider |-> Undefined,
             error |-> [kind |-> "ProviderNotFound", label |-> Label(c),
                        requested |-> providerName,
                        available |-> MapKeys(reg[c])]]
       ELSE [ok |-> TRUE, provider |-> provider, error |-> NoError]

\* getAvailableXProviders()
getAvailableProviders(reg, c) == MapKeys(reg[c])

\* getAllAvailableProviders()
getAllAvailableProviders(reg) == [c \in Categories |-> getAvailableProviders(reg, c)]

\* getDefaultProviders()
getDefaultProviders(dflt) == [c \in Categories |-> dflt[c]]

\* hasProvider(service, name)
hasProvider(reg, service, name) ==
  IF service \in Categories THEN MapHas(reg[service], name) ELSE FALSE

\* a clearAll() that forgets the last map
clearAllButZK(reg) == [c \in Categories |-> IF c = "zk" THEN reg[c] ELSE EmptyMap]

\* clearAll()
clearAll(reg) == [c \in Categories |-> EmptyMap]

\* --------------------------------------------------- MockDatabaseProvider
\* JS null
Null == [null |-> "null"]

\* object spread {...a, ...b}: b's fields override a's
Merge(a, b) ==
  [k \in DOMAIN a \cup DOMAIN b |-> IF k \in DOMAIN b THEN b[k] ELSE a[k]]

\* Map.delete: removes the entry, a missing key is a no-op
MapDelete(m, k) == SelectSeq(m, LAMBDA e : e.key # k)

MapValues(m) == [i \in 1..Len(m) |-> m[i].value]

\* new Date(Date.now() + 30 * 24 * 60 * 60 * 1000), on a clock counted in seconds
ThirtyDays == 30 * 24 * 60 * 60

\* initializeMockData(): one record per collection, each with id '1'
SeedCandidate(t) ==
  [id |-> "1", email |-> "john.doe@example.com", fullName |-> "John Doe",
   linkedinId |-> "linkedin-123", currentEmploymentStatus |-> "employed",
   createdAt |-> t, updatedAt |-> t]

SeedEmployment(t) ==
  [id |-> "1", candidateId |-> "1", companyName |-> "Tech Corp",
   jobTitle |-> "Senior Software Engineer", startDate |-> "2022-01-01",
   endDate |-> "2024-01-01", isCurrent |-> FALSE,
   achievements |-> <<"Led team of 5 developers", "Improved performance by 40%">>,
   documentsUrls |-> <<"https://example.com/doc1.pdf">>, createdAt |-> t]

\* a seed referee that names an employment entry the store does not hold
SeedRefereeDangling(t) ==
  [id |-> "1", candidateId |-> "1", employmentId |-> "2", name |-> "Jane Smith",
   email |-> "jane.smith@techcorp.com", company |-> "Tech Corp",
   role |-> "Engineering Manager", relationship |-> "Direct Manager",
   emailDomain |-> "techcorp.com", isVerified |-> TRUE, createdAt |-> t]

SeedReferee(t) ==
  [id |-> "1", candidateId |-> "1", employmentId |-> "1", name |-> "Jane Smith",
   email |-> "jane.smith@techcorp.com", company |-> "Tech Corp",
   role |-> "Engineering Manager", relationship |-> "Direct Manager",
   emailDomain |-> "techcorp.com", isVerified |-> TRUE, createdAt |-> t]

\* a seed response that names a referee the store does not hold
SeedResponseOrphan(t) ==
  [id |-> "1", refereeId |-> "2", token |-> "mock-token-123",
   relationship |-> "Direct Manager", roleConfirmation |-> "Senior Software Engineer",
   durationConfirmation |-> "2 years", wouldRehire |-> TRUE, returnedProperty |-> TRUE,
   leftOnGoodTerms |-> TRUE, achievementsAligned |-> TRUE, concerns |-> "",
   additionalComments |-> "Excellent team player and technical leader.",
   submittedAt |-> t, expiresAt |-> t + ThirtyDays, createdAt |-> t]

SeedResponse(t) ==
  [id |-> "1", refereeId |-> "1", token |-> "mock-token-123",
   relationship |-> "Direct Manager", roleConfirmation |-> "Senior Software Engineer",
   durationConfirmation |-> "2 years", wouldRehire |-> TRUE, returnedProperty |-> TRUE,
   leftOnGoodTerms |-> TRUE, achievementsAligned |-> TRUE, concerns |-> "",
   additionalComments |-> "Excellent team player and technical leader.",
   submittedAt |-> t, expiresAt |-> t + ThirtyDays, createdAt |-> t]

SeedScores(t) ==
  [id |-> "1", candidateId |-> "1", credibilityScore |-> 85, integrityScore |-> 90,
   achievementScore |-> 88, rehireScore |-> 92,
   summary |-> "Strong candidate with excellent references and proven track record.",
   analysisDate |-> t]

initializeMockData(t) ==
  [candidates |-> MapSet(EmptyMap, "1", SeedCandidate(t)),
   employmentHistory |-> MapSet(EmptyMap, "1", SeedEmployment(t)),
   referees |-> MapSet(EmptyMap, "1", SeedReferee(t)),
   referenceResponses |-> MapSet(EmptyMap, "1", SeedResponse(t)),
   aiScores |-> MapSet(EmptyMap, "1", SeedScores(t))]

\* Date.now().toString()
NewId(t) == ToString(t)

\* a createCandidate that spreads the input over the assigned id and timestamps
createCandidateInputLast(m, candidate, t) ==
  LET id == NewId(t)
      newCandidate == Merge([id |-> id, createdAt |-> t, updatedAt |-> t], candidate)
  IN [map |-> MapSet(m, id, newCandidate), result |-> newCandidate]

\* a createCandidate that numbers the records by the size of the collection
createCandidateSizeId(m, candidate, t) ==
  LET id == ToString(Len(m))
      newCandidate == Merge(candidate, [id |-> id, createdAt |-> t, updatedAt |-> t])
  IN [map |-> MapSet(m, id, newCandidate), result |-> newCandidate]

\* createCandidate(candidate)
createCandidate(m, candidate, t) ==
  LET id == NewId(t)
      newCandidate == Merge(candidate, [id |-> id, createdAt |-> t, updatedAt |-> t])
  IN [map |-> MapSet(m, id, newCandidate), result |-> newCandidate]

\* getCandidate(id): candidates.get(id) || null
getCandidate(m, id) == IF MapHas(m, id) THEN MapGet(m, id) ELSE Null

\* createEmploymentHistory / createReferee / createReferenceResponse:
\* {...input, id, createdAt}
createWithCreatedAt(m, input, t) ==
  LET id == NewId(t)
      rec == Merge(input, [id |-> id, createdAt |-> t])
  IN [map |-> MapSet(m, id, rec), result |-> rec]

createEmploymentHistory(m, employment, t) == createWithCreatedAt(m, employment, t)

createReferee(m, referee, t) == createWithCreatedAt(m, referee, t)

createReferenceResponse(m, response, t) == createWithCreatedAt(m, response, t)

\* createAIScores(scores): {...scores, id, analysisDate}
createAIScores(m, scores, t) ==
  LET id == NewId(t)
      newScores == Merge(scores, [id |-> id, analysisDate |-> t])
  IN [map |-> MapSet(m, id, newScores), result |-> newScores]

\* the Error thrown by an update of a missing id: `${entity} with id ${id} not found`
NotFound(entity, id) == [kind |-> "NotFound", entity |-> entity, id |-> id]

Threw(m, e) == [ok |-> FALSE, value |-> Null, error |-> e, map |-> m]

Returned(m, v) == [ok |-> TRUE, value |-> v, error |-> NoError, map |-> m]

\* an updateCandidate that stores the updates under a missing id (an upsert)
updateCandidateUpsert(m, id, updates, t) ==
  LET candidate == IF MapHas(m, id) THEN MapGet(m, id) ELSE << >>
      updatedCandidate == Merge(Merge(candidate, updates), [updatedAt |-> t])
  IN Returned(MapSet(m, id, updatedCandidate), updatedCandidate)

\* updateCandidate(id, updates)
updateCandidate(m, id, updates, t) ==
  IF ~MapHas(m, id)
    THEN Threw(m, NotFound("Candidate", id))
    ELSE LET updatedCandidate ==
               Merge(Merge(MapGet(m, id), updates), [updatedAt |-> t])
         IN Returned(MapSet(m, id, updatedCandidate), updatedCandidate)

\* an update that stores the updates in place of the record
updatePlainReplace(m, entity, id, updates) ==
  IF ~MapHas(m, id)
    THEN Threw(m, NotFound(entity, id))
    ELSE Returned(MapSet(m, id, updates), updates)

\* updateEmploymentHistory / updateReferee / updateReferenceResponse:
\* {...record, ...updates}, or the Error naming the entity
updatePlain(m, entity, id, updates) ==
  IF ~MapHas(m, id)
    THEN Threw(m, NotFound(entity, id))
    ELSE LET updated == Merge(MapGet(m, id), updates)
         IN Returned(MapSet(m, id, updated), updated)

updateEmploymentHistory(m, id, updates) ==
  updatePlain(m, "Employment history", id, updates)

updateReferee(m, id, updates) == updatePlain(m, "Referee", id, updates)

updateReferenceResponse(m, id, updates) ==
  updatePlain(m, "Reference response", id, updates)

\* the provider has createAIScores and getAIScores only: an update of a
\* CandidateScores record is a call of a method the object does not have,
\* which throws a TypeError whatever the id
updateAIScores(m, id, updates) ==
  Threw(m, [kind |-> "TypeError", entity |-> "updateAIScores", id |-> id])

\* a delete that removes the newest entry when the id is not a key
deleteByIdPop(m, id) ==
  IF MapHas(m, id) THEN MapDelete(m, id) ELSE SubSeq(m, 1, Len(m) - 1)

\* deleteCandidate / deleteEmploymentHistory / deleteReferee: Map.delete(id),
\* which returns normally whether or not the id is a key
deleteById(m, id) == MapDelete(m, id)

\* getEmploymentHistory(candidateId)
getEmploymentHistory(m, candidateId) ==
  SelectSeq(MapValues(m), LAMBDA emp : emp.candidateId = candidateId)

\* a getReferees that filters on the referee's employmentId
getRefereesByEmployment(m, candidateId) ==
  SelectSeq(MapValues(m), LAMBDA ref : ref.employmentId = candidateId)

\* getReferees(candidateId)
getReferees(m, candidateId) ==
  SelectSeq(MapValues(m), LAMBDA ref : ref.candidateId = candidateId)

\* getReferenceResponses(refereeId)
getReferenceResponses(m, refereeId) ==
  SelectSeq(MapValues(m), LAMBDA resp : resp.refereeId = refereeId)

\* getAIScores(candidateId): the first CandidateScores of the candidate, or null
getAIScores(m, candidateId) ==
  LET found == SelectSeq(MapValues(m), LAMBDA scores : scores.candidateId = candidateId)
  IN IF found = << >> THEN Null ELSE found[1]

\* a lookup by token that keeps the last match of the iteration
getReferenceResponseByTokenLast(m, token) ==
  LET found == SelectSeq(MapValues(m), LAMBDA response : response.token = token)
  IN IF found = << >> THEN Null ELSE found[Len(found)]

\* getReferenceResponseByToken(token): the first response, in the Map's
\* iteration order, whose token is the argument, or null
getReferenceResponseByToken(m, token) ==
  LET found == SelectSeq(MapValues(m), LAMBDA response : response.token = token)
  IN IF found = << >> THEN Null ELSE found[1]

\* getCandidateOverview(candidateId) on the five collections db: the
\* overview, or the thrown Error; getReferenceResponses is called with the
\* candidate's id
getCandidateOverview(db, candidateId) ==
  LET candidate == getCandidate(db.candidates, candidateId)
  IN IF candidate = Null
       THEN [ok |-> FALSE, value |-> Null, error |-> NotFound("Candidate", candidateId)]
       ELSE [ok |-> TRUE, error |-> NoError,
             value |->
               [candidate |-> candidate,
                employmentHistory |->
                  getEmploymentHistory(db.employmentHistory, candidateId),
                referees |-> getReferees(db.referees, candidateId),
                referenceResponses |->
                  getReferenceResponses(db.referenceResponses, candidateId),
                scores |-> getAIScores(db.aiScores, candidateId),
                flags |-> << >>,
                status |-> "active"]]

\* a deleteCandidate that also removes the records that name the candidate
deleteCandidateCascade(db, id) ==
  [db EXCEPT !.candidates = deleteById(@, id),
             !.employmentHistory = SelectSeq(@, LAMBDA e : e.value.candidateId # id),
             !.referees = SelectSeq(@, LAMBDA e : e.value.candidateId # id),
             !.aiScores = SelectSeq(@, LAMBDA e : e.value.candidateId # id)]

\* deleteCandidate(id) on the five collections db: candidates.delete(id) only
deleteCandidate(db, id) == [db EXCEPT !.candidates = deleteById(@, id)]

\* ---- inputs of the store's operations
\* the clock reading at construction, in seconds; Date.now() never reads 1,
\* so no generated id is the seed id '1'
StartTime == 1000

CandidateInputs ==
  {[email |-> "alice@example.com", fullName |-> "Alice Roe",
    currentEmploymentStatus |-> "student"],
   \* an untyped request body carrying fields the provider assigns itself
   [email |-> "bob@example.com", fullName |-> "Bob Poe", linkedinId |-> "linkedin-9",
    currentEmploymentStatus |-> "freelancing", id |-> "1", createdAt |-> 0]}

EmploymentInputs ==
  {[candidateId |-> "404", companyName |-> "Acme", jobTitle |-> "Analyst",
    startDate |-> "2020-05-01", isCurrent |-> TRUE, achievements |-> << >>,
    documentsUrls |-> << >>]}

RefereeInputs ==
  {[candidateId |-> "1", employmentId |-> "404", name |-> "Rae Lee",
    email |-> "rae@acme.com", company |-> "Acme", emailDomain |-> "acme.com",
    isVerified |-> FALSE]}

\* an optional Date field assigned undefined
UndefinedDate == 0 - 1

\* !!record[field] of an optional Date field: a Date object is truthy
\* whatever its time, a missing or undefined field is falsy
IsSet(record, field) == field \in DOMAIN record /\ record[field] # UndefinedDate

\* a request not yet answered, under the token the seed response carries, and
\* an answered one under a token of its own, of the referee that
\* createReferee returns at the first clock reading
ResponseInputs ==
  {[refereeId |-> "1", token |-> "mock-token-123", expiresAt |-> 0],
   [refereeId |-> NewId(StartTime), token |-> "mock-token-456", submittedAt |-> 5,
    expiresAt |-> 0]}

ScoresInputs ==
  {[candidateId |-> "1", credibilityScore |-> 40, integrityScore |-> 50,
    achievementScore |-> 60, rehireScore |-> 70, summary |-> "Mixed references."]}

\* identifiers passed to update and delete: the seed id, one never assigned
Ids == {"1", "404"}

CandidateUpdates == {[fullName |-> "Johnny Doe"], [id |-> "2"]}

EmploymentUpdates == {[isCurrent |-> TRUE]}

RefereeUpdates == {[isVerified |-> FALSE]}

ResponseUpdates ==
  {[submittedAt |-> UndefinedDate], [token |-> "mock-token-456"]}

\* tokens passed to getReferenceResponseByToken
Tokens == {"mock-token-123", "mock-token-456", "no-such-token"}

ScoresUpdates == {[rehireScore |-> 10]}

RECURSIVE SumOf(_, _)
\* scores.reduce((sum, score) => sum + score[field], 0)
SumOf(q, field) == IF q = << >> THEN 0 ELSE q[1][field] + SumOf(Tail(q), field)

\* a getDashboardStats whose pending filter tests for the key, not its value
getDashboardStatsKeyTest(cands, responses, scores) ==
  [totalCandidates |-> Len(cands),
   pendingReferences |->
     Len(SelectSeq(MapValues(responses), LAMBDA r : "submittedAt" \notin DOMAIN r)),
   completedReferences |->
     Len(SelectSeq(MapValues(responses), LAMBDA r : IsSet(r, "submittedAt"))),
   averageScore |-> IF Len(scores) > 0
                      THEN [num |-> SumOf(MapValues(scores), "credibilityScore"),
                            den |-> Len(scores)]
                      ELSE [num |-> 0, den |-> 1],
   flaggedCandidates |-> 0]

\* getDashboardStats(); the quotient sum / length is kept as a fraction
getDashboardStats(cands, responses, scores) ==
  [totalCandidates |-> Len(cands),
   pendingReferences |->
     Len(SelectSeq(MapValues(responses), LAMBDA r : ~IsSet(r, "submittedAt"))),
   completedReferences |->
     Len(SelectSeq(MapValues(responses), LAMBDA r : IsSet(r, "submittedAt"))),
   averageScore |-> IF Len(scores) > 0
                      THEN [num |-> SumOf(MapValues(scores), "credibilityScore"),
                            den |-> Len(scores)]
                      ELSE [num |-> 0, den |-> 1],
   flaggedCandidates |-> 0]

\* ------------------------------------------------------- MockAuthProvider
\* the three users the constructor sets, at construction time t
SeedUsers(t) ==
  MapSet(MapSet(MapSet(EmptyMap,
    "1", [id |-> "1", email |-> "candidate@example.com", fullName |-> "John Doe",
          role |-> "candidate", linkedinId |-> "linkedin-123",
          createdAt |-> t, updatedAt |-> t]),
    "2", [id |-> "2", email |-> "admin@example.com", fullName |-> "Admin User",
          role |-> "admin", createdAt |-> t, updatedAt |-> t]),
    "3", [id |-> "3", email |-> "referee@example.com", fullName |-> "Jane Smith",
          role |-> "referee", createdAt |-> t, updatedAt |-> t])

\* this.users.get(id) || null
UserOrNull(users, id) == IF MapHas(users, id) THEN MapGet(users, id) ELSE Null

AuthenticationFailed == [kind |-> "Error", message |-> "Authentication failed"]

\* an authenticate that looks the user up by the email of the credentials
authenticateByEmail(users, cur, credentials) ==
  LET matching == SelectSeq(MapValues(users),
                            LAMBDA u : "email" \in DOMAIN credentials
                                         /\ u.email = credentials.email)
      user == IF matching # << >> THEN matching[1] ELSE UserOrNull(users, "1")
  IN IF user = Null
       THEN [ok |-> FALSE, value |-> Null, error |-> AuthenticationFailed,
             currentUser |-> cur]
       ELSE [ok |-> TRUE, value |-> user, error |-> NoError, currentUser |-> user]

\* authenticate(credentials): the user under '1', made the current user, or
\* the thrown Error; cur is this.currentUser before the call
authenticate(users, cur, credentials) ==
  LET user == UserOrNull(users, "1")
  IN IF user = Null
       THEN [ok |-> FALSE, value |-> Null, error |-> AuthenticationFailed,
             currentUser |-> cur]
       ELSE [ok |-> TRUE, value |-> user, error |-> NoError, currentUser |-> user]

\* a verifyToken that answers with the user who is logged in
verifyTokenCurrentUser(users, cur, token) ==
  IF token = "valid-token" THEN cur ELSE Null

\* verifyToken(token)
verifyToken(users, cur, token) ==
  IF token = "valid-token" THEN UserOrNull(users, "1") ELSE Null

\* a logout that leaves the current user in place
logoutKeep(cur) == cur

\* logout(): this.currentUser = null
logout(cur) == Null

\* getCurrentUser()
getCurrentUser(cur) == cur

\* isAuthenticated(): this.currentUser !== null
isAuthenticated(cur) == cur # Null

\* getAuthUrl(provider)
getAuthUrl(provider) == "/auth/" \o provider \o "?mock=true"

\* the provider's methods for tests: setCurrentUser, addUser, removeUser, getAllUsers
setCurrentUser(user) == user

addUser(users, user) == MapSet(users, user.id, user)

removeUser(users, userId) == MapDelete(users, userId)

getAllUsers(users) == MapValues(users)

\* ---- inputs of the auth provider's operations
Credentials ==
  {[email |-> "candidate@example.com", password |-> "secret"],
   [email |-> "admin@example.com", password |-> "wrong"],
   [provider |-> "linkedin", code |-> "abc"],
   [email |-> ""]}

TokenArgs == {"valid-token", "Valid-Token", "mock-token-123", ""}

OAuthProviders == {"linkedin", "google"}

\* users a test adds: a fourth one, and one under the id of the seeded candidate
UserArgs ==
  {[id |-> "4", email |-> "hr@example.com", fullName |-> "Hu Ren",
    role |-> "hr_manager", createdAt |-> 0, updatedAt |-> 0],
   [id |-> "1", email |-> "root@example.com", fullName |-> "Root",
    role |-> "admin", createdAt |-> 0, updatedAt |-> 0]}

UserIds == {"1", "2", "404"}

\* ------------------------------------- provider initialisation and handlers
\* initializeProviders(): registers a new mock auth and a new mock database
\* provider under 'mock'; k provider instances were constructed before
initializeProviders(reg, k) ==
  registerProvider(registerProvider(reg, "auth", "mock", NewProvider(k + 1)),
                   "database", "mock", NewProvider(k + 2))

\* the root layout module: initializeProviders() only where window is undefined
layoutModule(reg, windowDefined, k) ==
  IF ~windowDefined THEN initializeProviders(reg, k) ELSE reg

\* a getProviders that looks up the database provider only
getProvidersDatabaseOnly(reg, dflt) ==
  LET database == getProvider(reg, dflt, "database", Undefined)
  IN IF ~database.ok
       THEN [made |-> TRUE, ok |-> FALSE, error |-> database.error]
       ELSE [made |-> TRUE, ok |-> TRUE, error |-> NoError]

\* getProviders(): the default auth provider, then the default database
\* provider; the first lookup that throws ends the call
getProviders(reg, dflt) ==
  LET auth == getProvider(reg, dflt, "auth", Undefined)
      database == getProvider(reg, dflt, "database", Undefined)
  IN IF ~auth.ok
       THEN [made |-> TRUE, ok |-> FALSE, error |-> auth.error]
       ELSE IF ~database.ok
         THEN [made |-> TRUE, ok |-> FALSE, error |-> database.error]
         ELSE [made |-> TRUE, ok |-> TRUE, error |-> NoError]

NoLookup == [made |-> FALSE, ok |-> FALSE, error |-> NoError]

\* the failure envelope of the route's catch block
Failure(status, error, message) ==
  [status |-> status, success |-> FALSE, error |-> error, message |-> message]

Success(data, message) ==
  [status |-> 200, success |-> TRUE, data |-> data, message |-> message]

\* GET of the diagnostic route
routeGET(reg, dflt, cands, responses, scores) ==
  LET lookup == getProviders(reg, dflt)
      stats == getDashboardStats(cands, responses, scores)
  IN IF ~lookup.ok
       THEN [lookup |-> lookup,
             response |-> Failure(500, lookup.error, "Failed to get provider information")]
       ELSE [lookup |-> lookup,
             response |->
               Success([availableProviders |-> getAllAvailableProviders(reg),
                        defaultProviders |-> getDefaultProviders(dflt),
                        systemStats |-> stats,
                        sampleData |->
                          [candidate |-> getCandidate(cands, "1"),
                           totalCandidates |-> stats.totalCandidates,
                           pendingReferences |-> stats.pendingReferences,
                           completedReferences |-> stats.completedReferences]],
                       "Provider system is working correctly")]

\* request bodies of POST: one that request.json() cannot parse, the three
\* actions, getCandidate without data, and an unknown action
Unreadable == [unreadable |-> TRUE]

PostBodies ==
  {Unreadable, [action |-> "getStats"], [action |-> "bogus"],
   [action |-> "getCandidate"], [action |-> "getCandidate", data |-> [id |-> "1"]],
   [action |-> "getCandidate", data |-> [id |-> "404"]],
   [action |-> "createCandidate"], [data |-> [id |-> "1"]]}
  \cup {[action |-> "createCandidate", data |-> c] : c \in CandidateInputs}

\* a POST whose answer to an unknown action leaves the status at its default
routePOSTDefaultStatus(body, reg, dflt, cands, responses, scores, t) ==
  IF body = Unreadable
    THEN [lookup |-> NoLookup, candidates |-> cands,
          response |-> Failure(500, [kind |-> "SyntaxError"], "Failed to process request")]
    ELSE
      LET lookup == getProviders(reg, dflt)
          action == IF "action" \in DOMAIN body THEN body.action ELSE Undefined
      IN IF ~lookup.ok
           THEN [lookup |-> lookup, candidates |-> cands,
                 response |-> Failure(500, lookup.error, "Failed to process request")]
           ELSE CASE action = "createCandidate" ->
                       LET data == IF "data" \in DOMAIN body THEN body.data ELSE << >>
                           r == createCandidate(cands, data, t)
                       IN [lookup |-> lookup, candidates |-> r.map,
                           response |-> Success(r.result, "Candidate created successfully")]
                  [] action = "getCandidate" ->
                       IF "data" \notin DOMAIN body
                         THEN [lookup |-> lookup, candidates |-> cands,
                               response |-> Failure(500, [kind |-> "TypeError"],
                                                    "Failed to process request")]
                         ELSE [lookup |-> lookup, candidates |-> cands,
                               response |-> Success(getCandidate(cands, body.data.id),
                                                    "Candidate retrieved successfully")]
                  [] action = "getStats" ->
                       [lookup |-> lookup, candidates |-> cands,
                        response |-> Success(getDashboardStats(cands, responses, scores),
                                             "Stats retrieved successfully")]
                  [] OTHER ->
                       [lookup |-> lookup, candidates |-> cands,
                        response |-> Failure(200, [kind |-> "Invalid action"],
                                             "Please provide a valid action")]

\* POST of the diagnostic route: the envelope, and the candidates map after
\* it; a body without data is spread as nothing by createCandidate and makes
\* data.id of getCandidate throw
routePOST(body, reg, dflt, cands, responses, scores, t) ==
  IF body = Unreadable
    THEN [lookup |-> NoLookup, candidates |-> cands,
          response |-> Failure(500, [kind |-> "SyntaxError"], "Failed to process request")]
    ELSE
      LET lookup == getProviders(reg, dflt)
          action == IF "action" \in DOMAIN body THEN body.action ELSE Undefined
      IN IF ~lookup.ok
           THEN [lookup |-> lookup, candidates |-> cands,
                 response |-> Failure(500, lookup.error, "Failed to process request")]
           ELSE CASE action = "createCandidate" ->
                       LET data == IF "data" \in DOMAIN body THEN body.data ELSE << >>
                           r == createCandidate(cands, data, t)
                       IN [lookup |-> lookup, candidates |-> r.map,
                           response |-> Success(r.result, "Candidate created successfully")]
                  [] action = "getCandidate" ->
                       IF "data" \notin DOMAIN body
                         THEN [lookup |-> lookup, candidates |-> cands,
                               response |-> Failure(500, [kind |-> "TypeError"],
                                                    "Failed to process request")]
                         ELSE [lookup |-> lookup, candidates |-> cands,
                               response |-> Success(getCandidate(cands, body.data.id),
                                                    "Candidate retrieved successfully")]
                  [] action = "getStats" ->
                       [lookup |-> lookup, candidates |-> cands,
                        response |-> Success(getDashboardStats(cands, responses, scores),
                                             "Stats retrieved successfully")]
                  [] OTHER ->
                       [lookup |-> lookup, candidates |-> cands,
                        response |-> Failure(400, [kind |-> "Invalid action"],
                                             "Please provide a valid action")]

\* HomePage.initializeApp(): getProviders() first; its catch sets the error state
initializeApp(reg, dflt) ==
  LET lookup == getProviders(reg, dflt)
  IN [lookup |-> lookup,
      error |-> IF lookup.ok THEN NoError ELSE lookup.error]

\* ----------------------------------------------------------------- state
VARIABLES
  env,        \* process.env as seen by the registry module
  loaded,     \* the registry module has been evaluated (initialize() ran)
  defaults,   \* ProviderRegistry.defaultXProvider
  registry,   \* ProviderRegistry.xProviders
  last,       \* the most recent call that wrote to the registry
  nreg,       \* number of register calls so far
  bound,      \* history: provider of the latest register(c, n, _) since the last clearAll
  names,      \* history: names registered per service since the last clearAll
  now,                \* Date.now()
  candidates,         \* MockDatabaseProvider.candidates
  employmentHistory,  \* MockDatabaseProvider.employmentHistory
  referees,           \* MockDatabaseProvider.referees
  referenceResponses, \* MockDatabaseProvider.referenceResponses
  aiScores,           \* MockDatabaseProvider.aiScores
  dbLast,             \* the most recent call on the store and what it returned or threw
  ncalls,             \* number of create, update and delete calls so far
  layoutLoaded,       \* the server has evaluated the root layout module
  clientRegistry,     \* ProviderRegistry.xProviders of the browser's module instance
  appLast,            \* the most recent handler run: its provider lookup and response
  nreq,               \* number of page renders and route requests so far
  users,              \* MockAuthProvider.users
  currentUser,        \* MockAuthProvider.currentUser
  authLast,           \* the most recent call on the auth provider and its outcome
  nhelp,              \* number of setCurrentUser, addUser and removeUser calls so far
  updReq,             \* the two requests that call updateCandidate: where each is
  order,              \* history: the requests in the order their updateCandidate ran
  ovReq,              \* the request inside getCandidateOverview: its position and locals
  snapshots,          \* history: the states of the store since getCandidateOverview was called
  nwrites             \* number of writes by other requests so far

regVars == <<env, loaded, defaults, registry, last, nreg, bound, names>>

dbMaps == <<candidates, employmentHistory, referees, referenceResponses, aiScores>>

dbVars == <<now, candidates, employmentHistory, referees, referenceResponses,
            aiScores, dbLast, ncalls>>

appVars == <<layoutLoaded, clientRegistry, appLast, nreq>>

vars == <<env, loaded, defaults, registry, last, nreg, bound, names,
          now, candidates, employmentHistory, referees, referenceResponses,
          aiScores, dbLast, ncalls, layoutLoaded, clientRegistry, appLast, nreq,
          users, currentUser, authLast, nhelp,
          updReq, order, ovReq, snapshots, nwrites>>

concVars == <<updReq, order, ovReq, snapshots, nwrites>>

authVars == <<users, currentUser, authLast, nhelp>>

NoBinding == [c \in Categories |-> [n \in Names |-> Undefined]]

NoNames == [c \in Categories |-> {}]

\* the registry module before it is evaluated, in environment e
RegistryInit(e) ==
  /\ env = e
  /\ loaded = FALSE
  /\ defaults = FieldDefaults
  /\ registry = EmptyRegistry
  /\ last = [op |-> "none"]
  /\ nreg = 0
  /\ bound = NoBinding
  /\ names = NoNames

\* no store constructed
NoStore ==
  /\ now = StartTime
  /\ candidates = EmptyMap
  /\ employmentHistory = EmptyMap
  /\ referees = EmptyMap
  /\ referenceResponses = EmptyMap
  /\ aiScores = EmptyMap
  /\ dbLast = [op |-> "none"]
  /\ ncalls = 0

\* new MockDatabaseProvider() at time StartTime
StoreConstructed ==
  /\ now = StartTime
  /\ candidates = initializeMockData(StartTime).candidates
  /\ employmentHistory = initializeMockData(StartTime).employmentHistory
  /\ referees = initializeMockData(StartTime).referees
  /\ referenceResponses = initializeMockData(StartTime).referenceResponses
  /\ aiScores = initializeMockData(StartTime).aiScores
  /\ dbLast = [op |-> "none"]
  /\ ncalls = 0

\* a started server that has served nothing, and a browser that has loaded nothing
AppInit ==
  /\ layoutLoaded = FALSE
  /\ clientRegistry = EmptyRegistry
  /\ appLast = [handler |-> "none"]
  /\ nreq = 0

Requests == {1, 2}

\* no request is inside updateCandidate or getCandidateOverview
NoRequests ==
  /\ updReq = [i \in Requests |-> [pc |-> "idle"]]
  /\ order = << >>
  /\ ovReq = [pc |-> "idle"]
  /\ snapshots = << >>
  /\ nwrites = 0

\* no auth provider constructed
NoAuth ==
  /\ users = EmptyMap
  /\ currentUser = Null
  /\ authLast = [op |-> "none"]
  /\ nhelp = 0

\* new MockAuthProvider() at time StartTime
AuthConstructed ==
  /\ users = SeedUsers(StartTime)
  /\ currentUser = Null
  /\ authLast = [op |-> "none"]
  /\ nhelp = 0

Init ==
  /\ \E e \in EnvChoices : RegistryInit(e)
  /\ NoStore
  /\ AppInit
  /\ NoAuth
  /\ NoRequests

\* module load of provider-registry.ts: ProviderRegistry.initialize()
LoadRegistryModule ==
  /\ ~loaded
  /\ loaded' = TRUE
  /\ defaults' = initialize(env)
  /\ last' = [op |-> "initialize"]
  /\ UNCHANGED <<env, registry, nreg, bound, names>>
  /\ UNCHANGED dbVars
  /\ UNCHANGED appVars
  /\ UNCHANGED authVars
  /\ UNCHANGED concVars

\* registerXProvider(name, new XProvider())
Register ==
  /\ loaded
  /\ nreg < MaxRegs
  /\ \E c \in Categories, n \in Names :
       LET p == NewProvider(nreg + 1)
       IN /\ registry' = registerProvider(registry, c, n, p)
          /\ last' = [op |-> "register", cat |-> c, name |-> n, provider |-> p]
          /\ bound' = [bound EXCEPT ![c][n] = p]
          /\ names' = [names EXCEPT ![c] = @ \cup {n}]
  /\ nreg' = nreg + 1
  /\ UNCHANGED <<env, loaded, defaults>>
  /\ UNCHANGED dbVars
  /\ UNCHANGED appVars
  /\ UNCHANGED authVars
  /\ UNCHANGED concVars

\* getXProvider(name?): a read; what it returns in a state is
\* getProvider(registry, defaults, c, n), and no field is assigned
Resolve ==
  /\ loaded
  /\ \E c \in Categories, n \in NameArgs :
       getProvider(registry, defaults, c, n).ok \in BOOLEAN
  /\ UNCHANGED vars

\* getAvailableXProviders(): a read
ListAvailable ==
  /\ loaded
  /\ \E c \in Categories : Len(getAvailableProviders(registry, c)) >= 0
  /\ UNCHANGED vars

\* getAllAvailableProviders(): a read
ListAll ==
  /\ loaded
  /\ DOMAIN getAllAvailableProviders(registry) = Categories
  /\ UNCHANGED vars

ClearAll ==
  /\ loaded
  /\ registry' = clearAll(registry)
  /\ last' = [op |-> "clearAll"]
  /\ bound' = NoBinding
  /\ names' = NoNames
  /\ UNCHANGED <<env, loaded, defaults, nreg>>
  /\ UNCHANGED dbVars
  /\ UNCHANGED appVars
  /\ UNCHANGED authVars
  /\ UNCHANGED concVars

Next ==
  \/ LoadRegistryModule
  \/ Register
  \/ Resolve
  \/ ListAvailable
  \/ ListAll
  \/ ClearAll

Spec == Init /\ [][Next]_vars

\* ------------------------------------------------ actions of the mock store
\* identifiers a caller passes for a collection: the seed id, one never
\* assigned, and the ids the collection holds
IdArgs(m) == Ids \cup {m[i].key : i \in 1..Len(m)}

\* the five collections of the store object
Collections ==
  [candidates |-> candidates, employmentHistory |-> employmentHistory,
   referees |-> referees, referenceResponses |-> referenceResponses,
   aiScores |-> aiScores]

\* time passes between two calls
Tick ==
  /\ now < StartTime + MaxTicks
  /\ now' = now + 1
  /\ UNCHANGED <<candidates, employmentHistory, referees, referenceResponses,
                 aiScores, dbLast, ncalls>>
  /\ UNCHANGED regVars
  /\ UNCHANGED appVars
  /\ UNCHANGED authVars
  /\ UNCHANGED concVars

\* what a create call leaves in dbLast: the input, the returned record, the
\* size of the collection m before the call and whether the returned id was
\* a key of it
CreateRecord(op, input, m, r) ==
  [op |-> op, input |-> input, result |-> r.result,
   sizeBefore |-> Len(m), hadKey |-> MapHas(m, r.result.id)]

CreateCandidate ==
  /\ ncalls < MaxCalls
  /\ \E c \in CandidateInputs :
       LET r == createCandidate(candidates, c, now)
       IN /\ candidates' = r.map
          /\ dbLast' = CreateRecord("createCandidate", c, candidates, r)
  /\ ncalls' = ncalls + 1
  /\ UNCHANGED <<now, employmentHistory, referees, referenceResponses, aiScores>>
  /\ UNCHANGED regVars
  /\ UNCHANGED appVars
  /\ UNCHANGED authVars
  /\ UNCHANGED concVars

CreateEmploymentHistory ==
  /\ ncalls < MaxCalls
  /\ \E e \in EmploymentInputs :
       LET r == createEmploymentHistory(employmentHistory, e, now)
       IN /\ employmentHistory' = r.map
          /\ dbLast' = CreateRecord("createEmploymentHistory", e, employmentHistory, r)
  /\ ncalls' = ncalls + 1
  /\ UNCHANGED <<now, candidates, referees, referenceResponses, aiScores>>
  /\ UNCHANGED regVars
  /\ UNCHANGED appVars
  /\ UNCHANGED authVars
  /\ UNCHANGED concVars

CreateReferee ==
  /\ ncalls < MaxCalls
  /\ \E e \in RefereeInputs :
       LET r == createReferee(referees, e, now)
       IN /\ referees' = r.map
          /\ dbLast' = CreateRecord("createReferee", e, referees, r)
  /\ ncalls' = ncalls + 1
  /\ UNCHANGED <<now, candidates, employmentHistory, referenceResponses, aiScores>>
  /\ UNCHANGED regVars
  /\ UNCHANGED appVars
  /\ UNCHANGED authVars
  /\ UNCHANGED concVars

CreateReferenceResponse ==
  /\ ncalls < MaxCalls
  /\ \E e \in ResponseInputs :
       LET r == createReferenceResponse(referenceResponses, e, now)
       IN /\ referenceResponses' = r.map
          /\ dbLast' = CreateRecord("createReferenceResponse", e, referenceResponses, r)
  /\ ncalls' = ncalls + 1
  /\ UNCHANGED <<now, candidates, employmentHistory, referees, aiScores>>
  /\ UNCHANGED regVars
  /\ UNCHANGED appVars
  /\ UNCHANGED authVars
  /\ UNCHANGED concVars

CreateAIScores ==
  /\ ncalls < MaxCalls
  /\ \E e \in ScoresInputs :
       LET r == createAIScores(aiScores, e, now)
       IN /\ aiScores' = r.map
          /\ dbLast' = CreateRecord("createAIScores", e, aiScores, r)
  /\ ncalls' = ncalls + 1
  /\ UNCHANGED <<now, candidates, employmentHistory, referees, referenceResponses>>
  /\ UNCHANGED regVars
  /\ UNCHANGED appVars
  /\ UNCHANGED authVars
  /\ UNCHANGED concVars

\* what an update call leaves in dbLast: the entity type, the id, whether the
\* id was a key of the collection when the call was made, and the outcome
UpdateRecord(type, id, updates, present, r) ==
  [op |-> "update", type |-> type, id |-> id, updates |-> updates,
   present |-> present, ok |-> r.ok, value |-> r.value, error |-> r.error]

UpdateCandidate ==
  /\ ncalls < MaxCalls
  /\ \E id \in IdArgs(candidates), u \in CandidateUpdates :
       LET r == updateCandidate(candidates, id, u, now)
       IN /\ candidates' = r.map
          /\ dbLast' = UpdateRecord("Candidate", id, u, MapHas(candidates, id), r)
  /\ ncalls' = ncalls + 1
  /\ UNCHANGED <<now, employmentHistory, referees, referenceResponses, aiScores>>
  /\ UNCHANGED regVars
  /\ UNCHANGED appVars
  /\ UNCHANGED authVars
  /\ UNCHANGED concVars

UpdateEmploymentHistory ==
  /\ ncalls < MaxCalls
  /\ \E id \in IdArgs(employmentHistory), u \in EmploymentUpdates :
       LET r == updateEmploymentHistory(employmentHistory, id, u)
       IN /\ employmentHistory' = r.map
          /\ dbLast' = UpdateRecord("EmploymentHistory", id, u,
                                    MapHas(employmentHistory, id), r)
  /\ ncalls' = ncalls + 1
  /\ UNCHANGED <<now, candidates, referees, referenceResponses, aiScores>>
  /\ UNCHANGED regVars
  /\ UNCHANGED appVars
  /\ UNCHANGED authVars
  /\ UNCHANGED concVars

UpdateReferee ==
  /\ ncalls < MaxCalls
  /\ \E id \in IdArgs(referees), u \in RefereeUpdates :
       LET r == updateReferee(referees, id, u)
       IN /\ referees' = r.map
          /\ dbLast' = UpdateRecord("Referee", id, u, MapHas(referees, id), r)
  /\ ncalls' = ncalls + 1
  /\ UNCHANGED <<now, candidates, employmentHistory, referenceResponses, aiScores>>
  /\ UNCHANGED regVars
  /\ UNCHANGED appVars
  /\ UNCHANGED authVars
  /\ UNCHANGED concVars

UpdateReferenceResponse ==
  /\ ncalls < MaxCalls
  /\ \E id \in IdArgs(referenceResponses), u \in ResponseUpdates :
       LET r == updateReferenceResponse(referenceResponses, id, u)
       IN /\ referenceResponses' = r.map
          /\ dbLast' = UpdateRecord("ReferenceResponse", id, u,
                                    MapHas(referenceResponses, id), r)
  /\ ncalls' = ncalls + 1
  /\ UNCHANGED <<now, candidates, employmentHistory, referees, aiScores>>
  /\ UNCHANGED regVars
  /\ UNCHANGED appVars
  /\ UNCHANGED authVars
  /\ UNCHANGED concVars

\* a caller updating a CandidateScores record
UpdateAIScores ==
  /\ ncalls < MaxCalls
  /\ \E id \in IdArgs(aiScores), u \in ScoresUpdates :
       LET r == updateAIScores(aiScores, id, u)
       IN /\ aiScores' = r.map
          /\ dbLast' = UpdateRecord("CandidateScores", id, u, MapHas(aiScores, id), r)
  /\ ncalls' = ncalls + 1
  /\ UNCHANGED <<now, candidates, employmentHistory, referees, referenceResponses>>
  /\ UNCHANGED regVars
  /\ UNCHANGED appVars
  /\ UNCHANGED authVars
  /\ UNCHANGED concVars

DeleteRecord(type, id, present) ==
  [op |-> "delete", type |-> type, id |-> id, present |-> present, ok |-> TRUE]

DeleteCandidate ==
  /\ ncalls < MaxCalls
  /\ \E id \in IdArgs(candidates) :
       LET db == deleteCandidate(Collections, id)
       IN /\ candidates' = db.candidates
          /\ employmentHistory' = db.employmentHistory
          /\ referees' = db.referees
          /\ referenceResponses' = db.referenceResponses
          /\ aiScores' = db.aiScores
          /\ dbLast' = DeleteRecord("Candidate", id, MapHas(candidates, id))
  /\ ncalls' = ncalls + 1
  /\ UNCHANGED now
  /\ UNCHANGED regVars
  /\ UNCHANGED appVars
  /\ UNCHANGED authVars
  /\ UNCHANGED concVars

DeleteEmploymentHistory ==
  /\ ncalls < MaxCalls
  /\ \E id \in IdArgs(employmentHistory) :
       /\ employmentHistory' = deleteById(employmentHistory, id)
       /\ dbLast' = DeleteRecord("EmploymentHistory", id, MapHas(employmentHistory, id))
  /\ ncalls' = ncalls + 1
  /\ UNCHANGED <<now, candidates, referees, referenceResponses, aiScores>>
  /\ UNCHANGED regVars
  /\ UNCHANGED appVars
  /\ UNCHANGED authVars
  /\ UNCHANGED concVars

DeleteReferee ==
  /\ ncalls < MaxCalls
  /\ \E id \in IdArgs(referees) :
       /\ referees' = deleteById(referees, id)
       /\ dbLast' = DeleteRecord("Referee", id, MapHas(referees, id))
  /\ ncalls' = ncalls + 1
  /\ UNCHANGED <<now, candidates, employmentHistory, referenceResponses, aiScores>>
  /\ UNCHANGED regVars
  /\ UNCHANGED appVars
  /\ UNCHANGED authVars
  /\ UNCHANGED concVars

\* getCandidate(id): a read; what it returns in a state is getCandidate(candidates, id)
GetCandidate ==
  /\ \A id \in IdArgs(candidates) : DOMAIN getCandidate(candidates, id) # {}
  /\ UNCHANGED vars

\* getCandidateOverview(candidateId): a read
GetCandidateOverview ==
  /\ \A id \in IdArgs(candidates) : getCandidateOverview(Collections, id).ok \in BOOLEAN
  /\ UNCHANGED vars

\* getReferenceResponseByToken(token): a read
GetReferenceResponseByToken ==
  /\ \A t \in Tokens :
       DOMAIN getReferenceResponseByToken(referenceResponses, t) # {}
  /\ UNCHANGED vars

\* getDashboardStats(): a read
GetDashboardStats ==
  /\ getDashboardStats(candidates, referenceResponses, aiScores).totalCandidates >= 0
  /\ UNCHANGED vars

\* getEmploymentHistory / getReferees / getAIScores (candidateId) and
\* getReferenceResponses(refereeId): reads
GetDependents ==
  /\ \A id \in IdArgs(candidates) :
       /\ Len(getEmploymentHistory(employmentHistory, id)) >= 0
       /\ Len(getReferees(referees, id)) >= 0
       /\ Len(getReferenceResponses(referenceResponses, id)) >= 0
       /\ DOMAIN getAIScores(aiScores, id) # {}
  /\ UNCHANGED vars

InitDb ==
  /\ RegistryInit(AllUnset)
  /\ StoreConstructed
  /\ AppInit
  /\ NoAuth
  /\ NoRequests

NextDb ==
  \/ Tick
  \/ CreateCandidate
  \/ CreateEmploymentHistory
  \/ CreateReferee
  \/ CreateReferenceResponse
  \/ CreateAIScores
  \/ UpdateCandidate
  \/ UpdateEmploymentHistory
  \/ UpdateReferee
  \/ UpdateReferenceResponse
  \/ UpdateAIScores
  \/ DeleteCandidate
  \/ DeleteEmploymentHistory
  \/ DeleteReferee
  \/ GetCandidate
  \/ GetCandidateOverview
  \/ GetReferenceResponseByToken
  \/ GetDashboardStats
  \/ GetDependents

SpecDb == InitDb /\ [][NextDb]_vars

\* ------------------------------------------------- actions of the application
\* environments of the server process: the default configuration, and one
\* that selects an auth provider nobody registers
AppEnvChoices == {AllUnset, [AllUnset EXCEPT !["AUTH_PROVIDER"] = "custom"]}

InitApp ==
  /\ \E e \in AppEnvChoices : RegistryInit(e)
  /\ NoStore
  /\ AppInit
  /\ NoAuth
  /\ NoRequests

\* the server renders a page for the first time: the root layout module is
\* evaluated, on the server (window is undefined), and constructs the store
RenderFirstPage ==
  /\ loaded
  /\ ~layoutLoaded
  /\ nreq < MaxRequests
  /\ layoutLoaded' = TRUE
  /\ registry' = layoutModule(registry, FALSE, nreg)
  /\ nreg' = nreg + 2
  /\ last' = [op |-> "initializeProviders"]
  /\ bound' = [bound EXCEPT !["auth"]["mock"] = NewProvider(nreg + 1),
                            !["database"]["mock"] = NewProvider(nreg + 2)]
  /\ names' = [names EXCEPT !["auth"] = @ \cup {"mock"}, !["database"] = @ \cup {"mock"}]
  /\ candidates' = initializeMockData(now).candidates
  /\ employmentHistory' = initializeMockData(now).employmentHistory
  /\ referees' = initializeMockData(now).referees
  /\ referenceResponses' = initializeMockData(now).referenceResponses
  /\ aiScores' = initializeMockData(now).aiScores
  /\ appLast' = [handler |-> "layout"]
  /\ nreq' = nreq + 1
  /\ users' = SeedUsers(now)
  /\ UNCHANGED <<env, loaded, defaults, now, dbLast, ncalls, clientRegistry>>
  /\ UNCHANGED <<currentUser, authLast, nhelp>>
  /\ UNCHANGED concVars

\* a GET request reaches the diagnostic route
RouteGET ==
  /\ loaded
  /\ nreq < MaxRequests
  /\ LET r == routeGET(registry, defaults, candidates, referenceResponses, aiScores)
     IN appLast' = [handler |-> "GET", lookup |-> r.lookup, response |-> r.response]
  /\ nreq' = nreq + 1
  /\ UNCHANGED regVars
  /\ UNCHANGED dbVars
  /\ UNCHANGED <<layoutLoaded, clientRegistry>>
  /\ UNCHANGED authVars
  /\ UNCHANGED concVars

\* a POST request reaches the diagnostic route
RoutePOST ==
  /\ loaded
  /\ nreq < MaxRequests
  /\ \E body \in PostBodies :
       LET r == routePOST(body, registry, defaults, candidates, referenceResponses,
                          aiScores, now)
       IN /\ appLast' = [handler |-> "POST", body |-> body, lookup |-> r.lookup,
                         response |-> r.response]
          /\ candidates' = r.candidates
  /\ nreq' = nreq + 1
  /\ UNCHANGED regVars
  /\ UNCHANGED <<now, employmentHistory, referees, referenceResponses, aiScores,
                 dbLast, ncalls>>
  /\ UNCHANGED <<layoutLoaded, clientRegistry>>
  /\ UNCHANGED authVars
  /\ UNCHANGED concVars

\* the browser has received a rendered page and runs the home page's effect:
\* its bundle evaluates the registry module (every default 'mock', no server
\* environment in the browser) and the layout's guard sees a window
HomePageInitializeApp ==
  /\ layoutLoaded
  /\ nreq < MaxRequests
  /\ clientRegistry' = layoutModule(clientRegistry, TRUE, nreg)
  /\ LET r == initializeApp(clientRegistry', initialize(AllUnset))
     IN appLast' = [handler |-> "initializeApp", lookup |-> r.lookup, error |-> r.error]
  /\ nreq' = nreq + 1
  /\ UNCHANGED regVars
  /\ UNCHANGED dbVars
  /\ UNCHANGED layoutLoaded
  /\ UNCHANGED authVars
  /\ UNCHANGED concVars

\* time passes between two requests
AppTick ==
  /\ now < StartTime + MaxTicks
  /\ now' = now + 1
  /\ UNCHANGED <<candidates, employmentHistory, referees, referenceResponses,
                 aiScores, dbLast, ncalls>>
  /\ UNCHANGED regVars
  /\ UNCHANGED appVars
  /\ UNCHANGED authVars
  /\ UNCHANGED concVars

NextApp ==
  \/ LoadRegistryModule
  \/ RenderFirstPage
  \/ RouteGET
  \/ RoutePOST
  \/ HomePageInitializeApp
  \/ AppTick

SpecApp == InitApp /\ [][NextApp]_vars

\* ------------------------------------------- actions of the auth provider
MaxHelperCalls == 2

Authenticate ==
  /\ \E c \in Credentials :
       LET r == authenticate(users, currentUser, c)
       IN /\ currentUser' = r.currentUser
          /\ authLast' = [op |-> "authenticate", credentials |-> c, ok |-> r.ok,
                          value |-> r.value, error |-> r.error]
  /\ UNCHANGED <<users, nhelp>>
  /\ UNCHANGED regVars
  /\ UNCHANGED dbVars
  /\ UNCHANGED appVars
  /\ UNCHANGED concVars

\* logout(); was is the user the call logged out
Logout ==
  /\ currentUser' = logout(currentUser)
  /\ authLast' = [op |-> "logout", was |-> currentUser]
  /\ UNCHANGED <<users, nhelp>>
  /\ UNCHANGED regVars
  /\ UNCHANGED dbVars
  /\ UNCHANGED appVars
  /\ UNCHANGED concVars

\* verifyToken(token): a read; what it returns in a state is
\* verifyToken(users, currentUser, token)
VerifyToken ==
  /\ \E t \in TokenArgs : DOMAIN verifyToken(users, currentUser, t) # {}
  /\ UNCHANGED vars

\* getCurrentUser() and isAuthenticated(): reads
GetCurrentUser ==
  /\ DOMAIN getCurrentUser(currentUser) # {}
  /\ isAuthenticated(currentUser) \in BOOLEAN
  /\ UNCHANGED vars

\* getAuthUrl(provider): a read of no field
GetAuthUrl ==
  /\ \E provider \in OAuthProviders : getAuthUrl(provider) # ""
  /\ UNCHANGED vars

\* getAllUsers(): a read
GetAllUsers ==
  /\ Len(getAllUsers(users)) >= 0
  /\ UNCHANGED vars

SetCurrentUser ==
  /\ nhelp < MaxHelperCalls
  /\ \E user \in UserArgs \cup {Null} :
       /\ currentUser' = setCurrentUser(user)
       /\ authLast' = [op |-> "setCurrentUser", user |-> user]
  /\ nhelp' = nhelp + 1
  /\ UNCHANGED users
  /\ UNCHANGED regVars
  /\ UNCHANGED dbVars
  /\ UNCHANGED appVars
  /\ UNCHANGED concVars

AddUser ==
  /\ nhelp < MaxHelperCalls
  /\ \E user \in UserArgs :
       /\ users' = addUser(users, user)
       /\ authLast' = [op |-> "addUser", user |-> user]
  /\ nhelp' = nhelp + 1
  /\ UNCHANGED currentUser
  /\ UNCHANGED regVars
  /\ UNCHANGED dbVars
  /\ UNCHANGED appVars
  /\ UNCHANGED concVars

RemoveUser ==
  /\ nhelp < MaxHelperCalls
  /\ \E id \in UserIds :
       /\ users' = removeUser(users, id)
       /\ authLast' = [op |-> "removeUser", id |-> id]
  /\ nhelp' = nhelp + 1
  /\ UNCHANGED currentUser
  /\ UNCHANGED regVars
  /\ UNCHANGED dbVars
  /\ UNCHANGED appVars
  /\ UNCHANGED concVars

InitAuth ==
  /\ RegistryInit(AllUnset)
  /\ NoStore
  /\ AppInit
  /\ AuthConstructed
  /\ NoRequests

NextAuth ==
  \/ Authenticate
  \/ Logout
  \/ VerifyToken
  \/ GetCurrentUser
  \/ GetAuthUrl
  \/ GetAllUsers
  \/ SetCurrentUser
  \/ AddUser
  \/ RemoveUser

SpecAuth == InitAuth /\ [][NextAuth]_vars

\* ------------------------------------------ claims on the auth provider
\* the seeded candidate principal
SeededCandidate == UserOrNull(SeedUsers(StartTime), "1")

\* C16: after any sequence of authenticate and logout calls,
\* verifyToken("valid-token") returns the seeded candidate principal (user id
\* "1") and verifyToken of any other string returns no principal.
C16_VerifyToken ==
  nhelp = 0 =>
    /\ verifyToken(users, currentUser, "valid-token") = SeededCandidate
    /\ verifyToken(users, currentUser, "valid-token").id = "1"
    /\ verifyToken(users, currentUser, "valid-token").role = "candidate"
    /\ \A t \in TokenArgs \ {"valid-token"} :
         verifyToken(users, currentUser, t) = Null

\* C16 witness: a logout that ended a session an authenticate call had
\* opened, after which "valid-token" still verifies.
C16_Witness ==
  /\ nhelp = 0
  /\ authLast.op = "logout"
  /\ authLast.was # Null
  /\ currentUser = Null
  /\ verifyToken(users, currentUser, "valid-token") # Null

\* C23: after any sequence of authenticate, verifyToken, logout and getAuthUrl
\* calls, isAuthenticated() is true exactly when getCurrentUser() is a
\* principal; after a successful authenticate getCurrentUser() is the
\* principal that call returned; after logout getCurrentUser() is none and
\* isAuthenticated() is false.
C23_CurrentPrincipal ==
  /\ isAuthenticated(currentUser) <=> "id" \in DOMAIN getCurrentUser(currentUser)
  /\ (authLast.op = "authenticate" /\ authLast.ok) =>
       /\ getCurrentUser(currentUser) = authLast.value
       /\ isAuthenticated(currentUser)
  /\ authLast.op = "logout" =>
       /\ getCurrentUser(currentUser) = Null
       /\ ~isAuthenticated(currentUser)

\* C23 witness: only interface calls were made and the last one, a logout,
\* ended the session of the principal an authenticate call had returned.
C23_Witness ==
  /\ nhelp = 0
  /\ authLast.op = "logout"
  /\ "id" \in DOMAIN authLast.was
  /\ authLast.was.id = "1"
  /\ ~isAuthenticated(currentUser)

\* C17 as stated: authenticate succeeds for every credentials value and
\* returns one of the three seeded principals.
C17_AuthenticateAlwaysSucceeds ==
  authLast.op = "authenticate" =>
    /\ authLast.ok
    /\ \E id \in {"1", "2", "3"} :
         authLast.value = UserOrNull(SeedUsers(StartTime), id)

\* C17 amended: the outcome of authenticate does not depend on the
\* credentials: as long as a user is stored under id "1" the call returns that
\* user and makes it the current principal, and this is the seeded candidate,
\* never the admin or the referee, unless the test helpers replaced it; once
\* removeUser has removed user "1" the call fails with "Authentication failed"
\* for every credentials value and the current principal stays as it was.
C17_AuthenticateIgnoresCredentials ==
  /\ \A c, d \in Credentials :
       authenticate(users, currentUser, c) = authenticate(users, currentUser, d)
  /\ \A c \in Credentials :
       LET r == authenticate(users, currentUser, c)
       IN IF MapHas(users, "1")
            THEN /\ r.ok
                 /\ r.value = MapGet(users, "1")
                 /\ r.currentUser = r.value
                 /\ nhelp = 0 => r.value = SeededCandidate
            ELSE /\ ~r.ok
                 /\ r.error = AuthenticationFailed
                 /\ r.currentUser = currentUser
  /\ authLast.op = "authenticate" =>
       /\ authLast.ok = MapHas(users, "1")
       /\ authLast.ok => (currentUser = authLast.value /\ authLast.value.id = "1")

\* C17 witness: an authenticate call with the admin's email that failed,
\* user "1" having been removed, while the admin is still stored.
C17_Witness ==
  /\ authLast.op = "authenticate"
  /\ ~authLast.ok
  /\ authLast.credentials = [email |-> "admin@example.com", password |-> "wrong"]
  /\ MapHas(users, "2")
  /\ ~MapHas(users, "1")

\* ---------------------------------------------- claims on the application
\* C8: every provider lookup made by a request handler or page (GET and POST
\* of the diagnostic route, the home page's initializeApp) happens after
\* start-up registration has populated the registry it reads, so under the
\* default configuration no such lookup fails with ProviderNotFound.
C8_LookupsAfterRegistration ==
  (env = AllUnset /\ appLast.handler \in {"GET", "POST", "initializeApp"}
     /\ appLast.lookup.made)
    => appLast.lookup.ok

DispatchedActions == {"createCandidate", "getCandidate", "getStats"}

\* the POST whose outcome is in appLast ran one of the three provider
\* operations and that operation returned
ReturnedNormally ==
  /\ appLast.body # Unreadable
  /\ appLast.lookup.ok
  /\ "action" \in DOMAIN appLast.body
  /\ appLast.body.action \in DispatchedActions
  /\ appLast.body.action = "getCandidate" => "data" \in DOMAIN appLast.body

\* C18: POST answers with the success envelope, carrying the provider's
\* result, only when the dispatched operation returned normally; an unreadable
\* body, a failed provider lookup, an operation that throws and an
\* unrecognised action each produce the failure envelope
\* {success: false, error, message} with a status outside 200..299.
C18_PostEnvelope ==
  appLast.handler = "POST" =>
    LET response == appLast.response
    IN IF ReturnedNormally
         THEN /\ response.success
              /\ response.status = 200
              /\ CASE appLast.body.action = "createCandidate" ->
                         /\ response.data = getCandidate(candidates, response.data.id)
                         /\ response.data.id = NewId(response.data.createdAt)
                    [] appLast.body.action = "getCandidate" ->
                         response.data = getCandidate(candidates, appLast.body.data.id)
                    [] appLast.body.action = "getStats" ->
                         response.data
                           = getDashboardStats(candidates, referenceResponses, aiScores)
         ELSE /\ ~response.success
              /\ response.status \notin 200..299
              /\ DOMAIN response = {"status", "success", "error", "message"}

\* C18 witness: an unrecognised action reached the handler after the provider
\* lookup had succeeded, and was answered with the failure envelope.
C18_Witness ==
  /\ appLast.handler = "POST"
  /\ appLast.lookup.ok
  /\ "action" \in DOMAIN appLast.body
  /\ appLast.body.action = "bogus"
  /\ ~appLast.response.success
  /\ Len(candidates) >= 2

\* C29: getProviders succeeds only when both the default auth provider and
\* the default database provider are registered, and otherwise fails with
\* ProviderNotFound; GET and POST of the diagnostic route then answer with
\* the 500 failure envelope and leave the store as it was, also when the
\* database provider itself is registered.
C29_BothProvidersNeeded ==
  /\ []((appLast.handler \in {"GET", "POST"} /\ appLast.lookup.made) =>
          /\ appLast.lookup.ok
               <=> (/\ hasProvider(registry, "auth", defaults["auth"])
                    /\ hasProvider(registry, "database", defaults["database"]))
          /\ ~appLast.lookup.ok =>
               /\ appLast.lookup.error.kind = "ProviderNotFound"
               /\ appLast.response.status = 500
               /\ ~appLast.response.success
               /\ appLast.response.error = appLast.lookup.error
               /\ "data" \notin DOMAIN appLast.response)
  /\ [][(nreq' = nreq + 1 /\ appLast'.handler \in {"GET", "POST"}
           /\ appLast'.lookup.made /\ ~appLast'.lookup.ok)
          => UNCHANGED dbMaps]_vars

\* C29 witness: a createCandidate POST was answered with the failure envelope
\* because the configured auth provider is missing, while the default
\* database provider is registered.
C29_Witness ==
  /\ appLast.handler = "POST"
  /\ "action" \in DOMAIN appLast.body
  /\ appLast.body.action = "createCandidate"
  /\ appLast.lookup.made
  /\ ~appLast.lookup.ok
  /\ appLast.lookup.error.label = Label("auth")
  /\ hasProvider(registry, "database", defaults["database"])
  /\ appLast.response.status = 500

\* ------------------------------------------------- claims on the mock store
ServerAssigned == {"id", "createdAt", "updatedAt"}

\* the fields of an object other than those in the set hidden
Without(r, hidden) == [k \in DOMAIN r \ hidden |-> r[k]]

\* C9: if createCandidate(c) returns r, then getCandidate(r.id) called
\* immediately afterwards returns a candidate equal to c in every field other
\* than the server-assigned id, createdAt and updatedAt.
C9_CreateThenGet ==
  dbLast.op = "createCandidate" =>
    LET got == getCandidate(candidates, dbLast.result.id)
    IN /\ got # Null
       /\ Without(got, ServerAssigned) = Without(dbLast.input, ServerAssigned)
       /\ got = dbLast.result

\* C9 witness: a second candidate was created under an id of its own, from an
\* input that itself carried an id and a createdAt.
C9_Witness ==
  /\ dbLast.op = "createCandidate"
  /\ "id" \in DOMAIN dbLast.input
  /\ dbLast.result.id # dbLast.input.id
  /\ Len(candidates) = 2

\* the collection that holds the records of an entity type
CollectionOf(type) ==
  CASE type = "Candidate" -> "candidates"
    [] type = "EmploymentHistory" -> "employmentHistory"
    [] type = "Referee" -> "referees"
    [] type = "ReferenceResponse" -> "referenceResponses"
    [] type = "CandidateScores" -> "aiScores"

EntityName(type) ==
  CASE type = "Candidate" -> "Candidate"
    [] type = "EmploymentHistory" -> "Employment history"
    [] type = "Referee" -> "Referee"
    [] type = "ReferenceResponse" -> "Reference response"
    [] type = "CandidateScores" -> "Candidate scores"

UpdatableTypes == {"Candidate", "EmploymentHistory", "Referee", "ReferenceResponse"}

C13_SecondCandidate ==
  LET stats == getDashboardStats(candidates, referenceResponses, aiScores)
  IN /\ ncalls = 0 =>
          /\ MapKeys(candidates) = <<"1">>
          /\ getCandidate(candidates, "1").fullName = "John Doe"
          /\ getCandidate(candidates, "1").email = "john.doe@example.com"
          /\ stats.totalCandidates = 1
     /\ (ncalls = 1 /\ dbLast.op = "createCandidate"
           /\ dbLast.input.email # "john.doe@example.com") =>
          /\ stats.totalCandidates = 2
          /\ getCandidate(candidates, "1") = SeedCandidate(StartTime)

\* C13 witness: the first call on the store created a candidate whose input
\* named the seed's id.
C13_Witness ==
  /\ ncalls = 1
  /\ dbLast.op = "createCandidate"
  /\ "id" \in DOMAIN dbLast.input
  /\ dbLast.input.id = "1"
  /\ Len(candidates) = 2

CreateOps ==
  {"createCandidate", "createEmploymentHistory", "createReferee",
   "createReferenceResponse", "createAIScores"}

\* the collection a create operation writes to
CreatedIn(op) ==
  CASE op = "createCandidate" -> candidates
    [] op = "createEmploymentHistory" -> employmentHistory
    [] op = "createReferee" -> referees
    [] op = "createReferenceResponse" -> referenceResponses
    [] op = "createAIScores" -> aiScores

\* C14: the id a create call returns differs from the id of every record of
\* that entity type created before, so every create call adds a new record,
\* never overwrites one, and the collection grows by exactly one.
C14_CreateAddsNewRecord ==
  dbLast.op \in CreateOps =>
    /\ ~dbLast.hadKey
    /\ Len(CreatedIn(dbLast.op)) = dbLast.sizeBefore + 1

\* C15: on a freshly constructed store, getCandidateOverview of the seeded
\* candidate returns that candidate with exactly the one seeded employment
\* entry, the one seeded referee and the one seeded response; the entry and
\* the referee carry the candidate's id, the referee names the entry's id and
\* the response carries the referee's id.
C15_SeedOverview ==
  ncalls = 0 =>
    LET r == getCandidateOverview(Collections, "1")
        o == r.value
    IN /\ r.ok
       /\ o.candidate = SeedCandidate(StartTime)
       /\ o.employmentHistory = <<SeedEmployment(StartTime)>>
       /\ o.referees = <<SeedReferee(StartTime)>>
       /\ o.referenceResponses = <<SeedResponse(StartTime)>>
       /\ o.employmentHistory[1].candidateId = o.candidate.id
       /\ o.referees[1].candidateId = o.candidate.id
       /\ o.referees[1].employmentId = o.employmentHistory[1].id
       /\ o.referenceResponses[1].refereeId = o.referees[1].id

\* C15 witness: the store as constructed, some time later and before any
\* write, whose overview of candidate '1' has one record of each kind.
C15_Witness ==
  /\ ncalls = 0
  /\ now > StartTime
  /\ Len(getCandidateOverview(Collections, "1").value.referenceResponses) = 1
  /\ Len(getCandidateOverview(Collections, "1").value.referees) = 1
  /\ Len(getCandidateOverview(Collections, "1").value.employmentHistory) = 1

\* the records of a collection that name a candidate
Dependents(m, id) == SelectSeq(MapValues(m), LAMBDA rec : rec.candidateId = id)

UniqueTokens(m) ==
  \A i, j \in 1..Len(m) : m[i].value.token = m[j].value.token => i = j

\* C20 as stated: in every reachable state of the store no two
\* ReferenceResponse records carry the same token.
C20_TokensUnique == UniqueTokens(referenceResponses)

\* a step that wrote a token which another response already carried
WroteTakenToken ==
  /\ dbLast'.op = "createReferenceResponse"
       \/ (dbLast'.op = "update" /\ dbLast'.type = "ReferenceResponse" /\ dbLast'.ok)
  /\ LET written == IF dbLast'.op = "update" THEN dbLast'.value ELSE dbLast'.result
     IN \E i \in 1..Len(referenceResponses) :
          /\ referenceResponses[i].key # written.id
          /\ referenceResponses[i].value.token = written.token

\* C20 amended: the freshly constructed store holds no two responses with the
\* same token, and the tokens stay unique as long as no createReferenceResponse
\* or updateReferenceResponse call writes a token that another response
\* carries; the store accepts such a call, and getReferenceResponseByToken(t)
\* returns the earliest-inserted response that carries t, or null when no
\* response carries it.
C20_TokenLookup ==
  /\ [](ncalls = 0 => UniqueTokens(referenceResponses))
  /\ [](\A t \in Tokens :
          LET at == {i \in 1..Len(referenceResponses) :
                       referenceResponses[i].value.token = t}
              got == getReferenceResponseByToken(referenceResponses, t)
          IN IF at = {}
               THEN got = Null
               ELSE \E i \in at : /\ got = referenceResponses[i].value
                                  /\ \A j \in at : i <= j)
  /\ [][(UniqueTokens(referenceResponses) /\ ~UniqueTokens(referenceResponses'))
          => WroteTakenToken]_vars

\* C20 witness: a response was created under the token of the seed response,
\* so two stored responses carry one token.
C20_Witness ==
  /\ dbLast.op = "createReferenceResponse"
  /\ dbLast.result.token = "mock-token-123"
  /\ ~dbLast.hadKey
  /\ ~UniqueTokens(referenceResponses)
  /\ getReferenceResponseByToken(referenceResponses, "mock-token-123").id = "1"

\* every employment entry names a stored candidate, and every referee names a
\* stored employment entry of the referee's own candidate
ReferencesResolve ==
  /\ \A i \in 1..Len(employmentHistory) :
       MapHas(candidates, employmentHistory[i].value.candidateId)
  /\ \A i \in 1..Len(referees) :
       \E j \in 1..Len(employmentHistory) :
         /\ employmentHistory[j].key = referees[i].value.employmentId
         /\ employmentHistory[j].value.candidateId = referees[i].value.candidateId

\* C21 as stated: in every reachable state of the store every employment
\* entry's candidateId names a stored candidate and every referee's
\* employmentId names an entry of the referee's own candidate.
C21_ReferencesResolve == ReferencesResolve

\* C21 amended: the references resolve in the freshly constructed store, but
\* the store checks none of them: createEmploymentHistory stores the entry
\* under whatever candidateId it is given and createReferee stores the
\* referee under whatever employmentId it is given, whether or not a record
\* with that id exists.
C21_ReferencesUnchecked ==
  /\ ncalls = 0 => ReferencesResolve
  /\ dbLast.op = "createEmploymentHistory" =>
       /\ MapHas(employmentHistory, dbLast.result.id)
       /\ MapGet(employmentHistory, dbLast.result.id) = dbLast.result
       /\ dbLast.result.candidateId = dbLast.input.candidateId
  /\ dbLast.op = "createReferee" =>
       /\ MapHas(referees, dbLast.result.id)
       /\ MapGet(referees, dbLast.result.id) = dbLast.result
       /\ dbLast.result.employmentId = dbLast.input.employmentId
       /\ dbLast.result.candidateId = dbLast.input.candidateId

\* C21 witness: a referee was stored whose employmentId names no entry.
C21_Witness ==
  /\ dbLast.op = "createReferee"
  /\ ~MapHas(employmentHistory, dbLast.result.employmentId)
  /\ MapHas(referees, dbLast.result.id)
  /\ ~ReferencesResolve

\* the responses that belong to the referees of a candidate
ResponsesOfCandidate(id) ==
  SelectSeq(MapValues(referenceResponses),
            LAMBDA resp : \E j \in 1..Len(referees) :
                            /\ referees[j].value.id = resp.refereeId
                            /\ referees[j].value.candidateId = id)

\* C24: for every candidate in the store, getCandidateOverview(id) returns as
\* referenceResponses exactly the responses whose refereeId is the id of a
\* referee with candidateId = id.
C24_OverviewResponses ==
  \A i \in 1..Len(candidates) :
    LET id == candidates[i].key
        r == getCandidateOverview(Collections, id)
    IN r.ok /\ r.value.referenceResponses = ResponsesOfCandidate(id)

\* C25: in every reachable state each record stored under key k in one of
\* the five collections has its id field equal to k, also after an update
\* whose updates include an id field.
C25_KeyIsId ==
  \A c \in DOMAIN Collections :
    \A i \in 1..Len(Collections[c]) :
      Collections[c][i].value.id = Collections[c][i].key

\* C26: an update call that fails leaves all five collections unchanged; a
\* successful update of the record with id X leaves every other collection
\* and every other record of its collection unchanged, keeps the record
\* under X, and keeps the value of every field the updates do not name,
\* apart from a candidate's updatedAt.
C26_UpdateFrame ==
  [][(ncalls' = ncalls + 1 /\ dbLast'.op = "update")
       => IF ~dbLast'.ok
            THEN UNCHANGED dbMaps
            ELSE LET c == CollectionOf(dbLast'.type)
                     before == Collections[c]
                     after == Collections'[c]
                     named == DOMAIN dbLast'.updates
                               \cup (IF dbLast'.type = "Candidate"
                                       THEN {"updatedAt"} ELSE {})
                 IN /\ \A d \in DOMAIN Collections \ {c} :
                         Collections'[d] = Collections[d]
                    /\ Len(after) = Len(before)
                    /\ \A i \in 1..Len(before) :
                         /\ after[i].key = before[i].key
                         /\ before[i].key # dbLast'.id => after[i] = before[i]
                         /\ before[i].key = dbLast'.id =>
                              \A f \in DOMAIN before[i].value \ named :
                                /\ f \in DOMAIN after[i].value
                                /\ after[i].value[f] = before[i].value[f]]_vars

\* C26 witness: a successful update of one of at least two referees, after a
\* createReferee call.
C26_Witness ==
  /\ dbLast.op = "update"
  /\ dbLast.type = "Referee"
  /\ dbLast.ok
  /\ Len(referees) >= 2
  /\ ncalls >= 2

\* C11 as stated: for every entity type with a delete operation, a delete call
\* whose id is not in the type's collection fails with NotFound.
C11_DeleteMissingFails ==
  (dbLast.op = "delete" /\ ~dbLast.present) => ~dbLast.ok

\* C11 amended: for every entity type with a delete operation (Candidate,
\* EmploymentHistoryEntry, Referee), a delete call whose id is not in the
\* type's collection returns normally and leaves all five collections as
\* they were.
C11_DeleteMissingIsNoOp ==
  [][(ncalls' = ncalls + 1 /\ dbLast'.op = "delete" /\ ~dbLast'.present)
       => (dbLast'.ok /\ UNCHANGED dbMaps)]_vars

\* C11 witness: a delete by an id the non-empty collection does not hold.
C11_Witness ==
  /\ dbLast.op = "delete"
  /\ ~dbLast.present
  /\ dbLast.ok
  /\ dbLast.id = "404"
  /\ Len(Collections[CollectionOf(dbLast.type)]) >= 1

\* the responses that carry a submission timestamp
Submitted ==
  {i \in 1..Len(referenceResponses) :
     /\ "submittedAt" \in DOMAIN referenceResponses[i].value
     /\ referenceResponses[i].value.submittedAt >= 0}

\* C12: after any sequence of create and update calls, getDashboardStats
\* returns pendingReferences + completedReferences equal to the number of
\* ReferenceResponse records, completedReferences being the number of
\* responses that have a submission timestamp and pendingReferences the
\* number of the others.
C12_PendingPlusCompleted ==
  LET stats == getDashboardStats(candidates, referenceResponses, aiScores)
  IN /\ stats.pendingReferences + stats.completedReferences = Len(referenceResponses)
     /\ stats.completedReferences = Cardinality(Submitted)
     /\ stats.pendingReferences = Len(referenceResponses) - Cardinality(Submitted)

\* C12 witness: the store holds an answered response and the last call was an
\* update that took the timestamp of another response away.
C12_Witness ==
  /\ dbLast.op = "update"
  /\ dbLast.type = "ReferenceResponse"
  /\ dbLast.ok
  /\ "submittedAt" \in DOMAIN dbLast.value
  /\ dbLast.value.submittedAt = UndefinedDate
  /\ Len(referenceResponses) >= 2
  /\ Submitted # {}

\* ------------------------------------------------- claims on the registry
Found(p) == [ok |-> TRUE, provider |-> p, error |-> NoError]

NotFoundIn(r) == ~r.ok /\ r.provider = Undefined /\ r.error.kind = "ProviderNotFound"

\* C1: immediately after register(C, N, P), resolve(C, N) returns exactly P,
\* for every category C, every name N and every provider P.
C1_RegisterThenResolve ==
  last.op = "register" =>
    getProvider(registry, defaults, last.cat, last.name) = Found(last.provider)

\* C2: in every registry state and for every category C, resolve(C) with no
\* name has the same outcome as resolve(C, configuredDefault(C)): the same
\* provider, or the same ProviderNotFound failure.
C2_OmittedNameIsDefault ==
  \A c \in Categories :
    getProvider(registry, defaults, c, Undefined)
      = getProvider(registry, defaults, c, getDefaultProviders(defaults)[c])

\* C2 witness: a service whose configured default is not "mock" has a provider
\* registered under that default, so the lookup by default succeeds.
C2_Witness ==
  \E c \in Categories :
    /\ defaults[c] = "custom"
    /\ getProvider(registry, defaults, c, Undefined).ok
    /\ ~MapHas(registry[c], "mock")

\* C3: for every category C and every name N with no binding in C,
\* resolve(C, N) fails with ProviderNotFound and returns nothing else.
C3_UnboundNameFails ==
  \A c \in Categories, n \in Names :
    ~hasProvider(registry, c, n) => NotFoundIn(getProvider(registry, defaults, c, n))

\* C4: with no reset in between, resolve(C, N) returns the provider of the
\* most recent register(C, N, _).
C4_LatestRegistrationWins ==
  \A c \in Categories, n \in Names :
    bound[c][n] # Undefined =>
      getProvider(registry, defaults, c, n) = Found(bound[c][n])

\* C27: resolve(C, "") behaves as resolve(C) with no name and resolves the
\* configured default of C: the same provider or the same failure; a provider
\* registered under the empty name is returned by resolve(C, "") only if the
\* configured default is itself the empty name.
C27_EmptyNameIsDefault ==
  \A c \in Categories :
    LET r == getProvider(registry, defaults, c, "")
    IN /\ r = getProvider(registry, defaults, c, Undefined)
       /\ r.ok => r.provider = MapGet(registry[c], defaults[c])
       /\ ~r.ok => r.error.requested = defaults[c]
       /\ (bound[c][""] # Undefined /\ r.ok /\ r.provider = bound[c][""])
            => defaults[c] = ""

\* C27 witness: a service has a provider under the empty name and another
\* under its default name, and resolve with the empty name succeeds.
C27_Witness ==
  \E c \in Categories :
    /\ bound[c][""] # Undefined
    /\ bound[c][defaults[c]] # Undefined
    /\ getProvider(registry, defaults, c, "").ok
    /\ getProvider(registry, defaults, c, "").provider # bound[c][""]

\* C28: register(C, N, P) binds (C, N) to P and leaves the binding of every
\* name of every other service and of every other name of C unchanged; a
\* step that is no register, module load or clearAll, a successful or failed
\* resolve in particular, changes no binding at all.
C28_ServicesIsolated ==
  [][/\ (nreg' = nreg + 1 /\ last'.op = "register") =>
          /\ MapGet(registry'[last'.cat], last'.name) = last'.provider
          /\ \A d \in Categories \ {last'.cat} : registry'[d] = registry[d]
          /\ \A n \in Names \ {last'.name} :
               /\ MapHas(registry'[last'.cat], n) = MapHas(registry[last'.cat], n)
               /\ MapGet(registry'[last'.cat], n) = MapGet(registry[last'.cat], n)
     /\ (nreg' = nreg /\ last' = last) => registry' = registry]_vars

\* C28 witness: the second register call went to another service than the
\* first, and both bindings are in place.
C28_Witness ==
  /\ last.op = "register"
  /\ nreg = 2
  /\ \E d \in Categories \ {last.cat} : registry[d] # EmptyMap
  /\ MapGet(registry[last.cat], last.name) = last.provider

\* C5: after clearAll, and until a later register, listAvailable is empty for
\* every category and resolve(C, N) fails with ProviderNotFound for every C
\* and every N, named or omitted.
C5_ClearAllEmpties ==
  last.op = "clearAll" =>
    \A c \in Categories :
      /\ getAvailableProviders(registry, c) = << >>
      /\ getAllAvailableProviders(registry)[c] = << >>
      /\ \A n \in NameArgs : NotFoundIn(getProvider(registry, defaults, c, n))

\* C5 witness: clearAll ran on a registry that held MaxRegs registrations.
C5_Witness == last.op = "clearAll" /\ nreg = MaxRegs

\* C6 as stated: the configured default equals the environment value whenever
\* the variable is set, and "mock" when it is unset.
C6_DefaultIsEnvWhenSet ==
  loaded =>
    \A c \in Categories :
      defaults[c] = IF env[EnvVar(c)] # Undefined THEN env[EnvVar(c)] ELSE "mock"

\* C6 amended: the configured default equals the environment value when the
\* variable is set to a non-empty string, and "mock" when it is unset or
\* empty; it stays so through register, resolve, listAvailable and clearAll
\* (the environment is read once, at module load).
C6_DefaultIsEnvWhenNonEmpty ==
  loaded =>
    \A c \in Categories :
      defaults[c] = IF env[EnvVar(c)] \notin {Undefined, ""}
                      THEN env[EnvVar(c)] ELSE "mock"

\* C6 witness: a default taken from the environment, one fallen back from an
\* empty value and one from an unset variable, after registrations and a reset.
C6_Witness ==
  /\ loaded
  /\ last.op = "clearAll"
  /\ nreg = MaxRegs
  /\ \E c \in Categories : env[EnvVar(c)] = "custom" /\ defaults[c] = "custom"
  /\ \E c \in Categories : env[EnvVar(c)] = "" /\ defaults[c] = "mock"
  /\ \E c \in Categories : env[EnvVar(c)] = Undefined /\ defaults[c] = "mock"

SeqRange(q) == {q[i] : i \in 1..Len(q)}

\* C7: listAvailable(C) is exactly the set of names registered in C since the
\* last reset, each name once, and the all-categories listing reports the
\* same for each of the eight categories.
C7_ListIsRegisteredNames ==
  \A c \in Categories :
    /\ SeqRange(getAvailableProviders(registry, c)) = names[c]
    /\ Len(getAvailableProviders(registry, c)) = Cardinality(names[c])
    /\ SeqRange(getAllAvailableProviders(registry)[c]) = names[c]
    /\ Len(getAllAvailableProviders(registry)[c]) = Cardinality(names[c])

\* C7 witness: one name registered twice in a category.
C7_Witness ==
  \E c \in Categories :
    /\ nreg = 2
    /\ last.op = "register"
    /\ Cardinality(names[c]) = 1
    /\ \A d \in Categories \ {c} : names[d] = {}

\* --------------------------------- requests that overlap on the mock store
\* Every method of the store is async: its body runs without interruption up
\* to its first await, and another request may run at each await. A request
\* is received, and calls the store in a later turn of the event loop.
MaxWrites == 2

\* the updates the two updating requests carry: two that set the same field
\* and one that sets another
ConcUpdates ==
  CandidateUpdates \cup {[fullName |-> "Jon Doe", email |-> "jon.doe@example.com"]}

\* getCandidateOverview is between its call and its return
InProgress ==
  ovReq.pc \in {"candidate", "employmentHistory", "referees", "referenceResponses",
                "scores"}

\* the states of the store since the overview's call, after a write that leaves db
Observed(db) == IF InProgress THEN Append(snapshots, db) ELSE snapshots

\* an updateCandidate whose body has an await between candidates.get and
\* candidates.set: it spreads the record the request saw when it was received
updateCandidateRunStale(req, m, t) ==
  IF ~MapHas(req.seen, req.id)
    THEN Threw(m, NotFound("Candidate", req.id))
    ELSE LET updatedCandidate ==
               Merge(Merge(MapGet(req.seen, req.id), req.updates), [updatedAt |-> t])
         IN Returned(MapSet(m, req.id, updatedCandidate), updatedCandidate)

\* the call updateCandidate(id, updates) of the request req: the body has no
\* await, so candidates.get and candidates.set act on the Map m of the turn
\* in which the call runs
updateCandidateRun(req, m, t) == updateCandidate(m, req.id, req.updates, t)

\* request i is received with an id and updates; it has not called the store
UpdateReceived(i) ==
  /\ updReq[i].pc = "idle"
  /\ \E id \in Ids, u \in ConcUpdates :
       updReq' = [updReq EXCEPT ![i] = [pc |-> "pending", id |-> id, updates |-> u,
                                        seen |-> candidates]]
  /\ UNCHANGED <<order, ovReq, snapshots, nwrites>>
  /\ UNCHANGED dbVars
  /\ UNCHANGED regVars
  /\ UNCHANGED appVars
  /\ UNCHANGED authVars

\* request i calls updateCandidate(id, updates), which runs to its end
UpdateRuns(i) ==
  /\ updReq[i].pc = "pending"
  /\ LET r == updateCandidateRun(updReq[i], candidates, now)
     IN /\ candidates' = r.map
        /\ updReq' = [updReq EXCEPT ![i] =
                        [pc |-> "done", id |-> updReq[i].id,
                         updates |-> updReq[i].updates, seen |-> updReq[i].seen,
                         before |-> getCandidate(candidates, updReq[i].id),
                         ok |-> r.ok, value |-> r.value, at |-> now]]
        /\ snapshots' = Observed([Collections EXCEPT !.candidates = r.map])
  /\ order' = Append(order, i)
  /\ UNCHANGED <<ovReq, nwrites>>
  /\ UNCHANGED <<now, employmentHistory, referees, referenceResponses, aiScores,
                 dbLast, ncalls>>
  /\ UNCHANGED regVars
  /\ UNCHANGED appVars
  /\ UNCHANGED authVars

\* the stores a create or delete call of another request can leave from db:
\* createEmploymentHistory, createReferee, deleteEmploymentHistory,
\* deleteReferee or deleteCandidate
WriteResults(db, t) ==
  {[db EXCEPT !.employmentHistory = createEmploymentHistory(@, e, t).map] :
     e \in EmploymentInputs}
  \cup {[db EXCEPT !.referees = createReferee(@, r, t).map] : r \in RefereeInputs}
  \cup {[db EXCEPT !.employmentHistory = deleteById(@, id)] : id \in Ids}
  \cup {[db EXCEPT !.referees = deleteById(@, id)] : id \in Ids}
  \cup {deleteCandidate(db, id) : id \in Ids}

\* another request creates or deletes a record
ConcurrentWrite ==
  /\ nwrites < MaxWrites
  /\ \E db \in WriteResults(Collections, now) :
       /\ candidates' = db.candidates
       /\ employmentHistory' = db.employmentHistory
       /\ referees' = db.referees
       /\ referenceResponses' = db.referenceResponses
       /\ aiScores' = db.aiScores
       /\ snapshots' = Observed(db)
  /\ nwrites' = nwrites + 1
  /\ UNCHANGED <<updReq, order, ovReq>>
  /\ UNCHANGED <<now, dbLast, ncalls>>
  /\ UNCHANGED regVars
  /\ UNCHANGED appVars
  /\ UNCHANGED authVars

\* getCandidateOverview(candidateId) is called: it runs up to its first
\* await, whose operand getCandidate(candidateId) reads the Map in that turn
OverviewCall ==
  /\ ovReq.pc = "idle"
  /\ \E id \in Ids :
       ovReq' = [pc |-> "candidate", candidateId |-> id,
                 candidate |-> getCandidate(candidates, id)]
  /\ snapshots' = <<Collections>>
  /\ UNCHANGED <<updReq, order, nwrites>>
  /\ UNCHANGED dbVars
  /\ UNCHANGED regVars
  /\ UNCHANGED appVars
  /\ UNCHANGED authVars

\* getCandidateOverview resumes after an await and runs to the next one: the
\* check of the candidate and getEmploymentHistory, then getReferees, then
\* getReferenceResponses (with the candidate's id), then getAIScores, then
\* the return statement
OverviewResumes ==
  /\ InProgress
  /\ ovReq' =
       CASE ovReq.pc = "candidate" ->
              IF ovReq.candidate = Null
                THEN [pc |-> "threw", candidateId |-> ovReq.candidateId,
                      error |-> NotFound("Candidate", ovReq.candidateId)]
                ELSE Merge(ovReq,
                       [pc |-> "employmentHistory",
                        employmentHistory |->
                          getEmploymentHistory(employmentHistory, ovReq.candidateId)])
         [] ovReq.pc = "employmentHistory" ->
              Merge(ovReq, [pc |-> "referees",
                            referees |-> getReferees(referees, ovReq.candidateId)])
         [] ovReq.pc = "referees" ->
              Merge(ovReq,
                [pc |-> "referenceResponses",
                 referenceResponses |->
                   getReferenceResponses(referenceResponses, ovReq.candidateId)])
         [] ovReq.pc = "referenceResponses" ->
              Merge(ovReq, [pc |-> "scores",
                            scores |-> getAIScores(aiScores, ovReq.candidateId)])
         [] ovReq.pc = "scores" ->
              Merge(ovReq, [pc |-> "returned", flags |-> << >>, status |-> "active"])
  /\ UNCHANGED <<updReq, order, snapshots, nwrites>>
  /\ UNCHANGED dbVars
  /\ UNCHANGED regVars
  /\ UNCHANGED appVars
  /\ UNCHANGED authVars

InitConc ==
  /\ RegistryInit(AllUnset)
  /\ StoreConstructed
  /\ AppInit
  /\ NoAuth
  /\ NoRequests

\* two requests that update candidates while other requests write and time passes
NextConc ==
  \/ Tick
  \/ \E i \in Requests : UpdateReceived(i)
  \/ \E i \in Requests : UpdateRuns(i)
  \/ ConcurrentWrite

SpecConc == InitConc /\ [][NextConc]_vars

\* one request inside getCandidateOverview while other requests write and
\* time passes
NextOverview ==
  \/ Tick
  \/ ConcurrentWrite
  \/ OverviewCall
  \/ OverviewResumes

SpecOverview == InitConc /\ [][NextOverview]_vars

\* ------------------------------------------ claims on overlapping requests
\* both requests updated the candidate of one id, and the record is stored
BothUpdated ==
  /\ Len(order) = 2
  /\ updReq[1].id = updReq[2].id
  /\ updReq[1].ok /\ updReq[2].ok
  /\ MapHas(candidates, updReq[1].id)

\* C22: after two overlapping requests have both updated the candidate of one
\* id, the stored record is the record as it was before the first
\* updateCandidate ran with the first request's updates and then the second's
\* applied: a field the second set has the second's value, a field only the
\* first set has the first's, every other field is as before, and updatedAt is
\* the time of the second.
C22_LastWriteWins ==
  BothUpdated =>
    LET first == updReq[order[1]]
        second == updReq[order[2]]
        stored == MapGet(candidates, first.id)
    IN /\ DOMAIN stored = DOMAIN first.before \cup DOMAIN first.updates
                            \cup DOMAIN second.updates \cup {"updatedAt"}
       /\ \A f \in DOMAIN stored :
            stored[f] = IF f = "updatedAt" THEN second.at
                        ELSE IF f \in DOMAIN second.updates THEN second.updates[f]
                        ELSE IF f \in DOMAIN first.updates THEN first.updates[f]
                        ELSE first.before[f]

\* both requests were received before either ran, they set fullName to
\* different values, and both have updated candidate '1'
C22_Witness ==
  /\ BothUpdated
  /\ updReq[1].id = "1"
  /\ updReq[1].seen = updReq[2].seen
  /\ MapGet(updReq[1].seen, "1") = updReq[order[1]].before
  /\ "fullName" \in DOMAIN updReq[1].updates \cap DOMAIN updReq[2].updates
  /\ updReq[1].updates.fullName # updReq[2].updates.fullName
  /\ MapGet(candidates, "1").fullName = updReq[order[2]].updates.fullName

\* every record of the sequence recs is a value of the Map m
Stored(m, recs) ==
  \A k \in 1..Len(recs) : \E j \in 1..Len(m) : m[j].value = recs[k]

\* every record the returned overview holds is stored in the state db
ExistedIn(db) ==
  /\ MapHas(db.candidates, ovReq.candidateId)
  /\ MapGet(db.candidates, ovReq.candidateId) = ovReq.candidate
  /\ Stored(db.employmentHistory, ovReq.employmentHistory)
  /\ Stored(db.referees, ovReq.referees)
  /\ Stored(db.referenceResponses, ovReq.referenceResponses)
  /\ ovReq.scores = Null \/ Stored(db.aiScores, <<ovReq.scores>>)

\* C30 as stated: when getCandidateOverview has returned, the store was, at
\* its call or after one of the writes made since, in a state that held the
\* candidate and every employment entry, referee, response and score of the
\* returned overview.
C30_ConsistentSnapshot ==
  ovReq.pc = "returned" => \E k \in 1..Len(snapshots) : ExistedIn(snapshots[k])

\* C30: getCandidateOverview reads the five collections in five turns. When
\* it has returned, the candidate is the one stored at the call, and the
\* employment entries, the referees, the responses and the scores are each
\* the result of their query on a state the store was in between the call
\* and the return, each state the same as or later than the one before; when
\* no request wrote in between, all five come from the state at the call.
C30_ReadsInOrder ==
  ovReq.pc = "returned" =>
    LET id == ovReq.candidateId
        n == Len(snapshots)
    IN /\ MapHas(snapshots[1].candidates, id)
       /\ ovReq.candidate = MapGet(snapshots[1].candidates, id)
       /\ \E k2 \in 1..n : \E k3 \in k2..n : \E k4 \in k3..n : \E k5 \in k4..n :
            /\ ovReq.employmentHistory = Dependents(snapshots[k2].employmentHistory, id)
            /\ ovReq.referees = Dependents(snapshots[k3].referees, id)
            /\ ovReq.referenceResponses =
                 SelectSeq(MapValues(snapshots[k4].referenceResponses),
                           LAMBDA resp : resp.refereeId = id)
            /\ LET found == Dependents(snapshots[k5].aiScores, id)
               IN ovReq.scores = IF found = << >> THEN Null ELSE found[1]
       /\ n = 1 => ExistedIn(snapshots[1])

\* an overview has returned records that no state of the store held
\* together: other requests wrote between its reads
C30_Witness ==
  /\ ovReq.pc = "returned"
  /\ Len(snapshots) >= 3
  /\ \A k \in 1..Len(snapshots) : ~ExistedIn(snapshots[k])

====
